---- MODULE Spec2Model ----
(***************************************************************************)
(* Payment initiation and webhook reconciliation of the doctor-backend     *)
(* service.  Two iterations of the service exist in the repository:        *)
(*   "v2"  src/deepseek_javascript_20250903_d1d6a6.js                      *)
(*   "v1"  src/unnamed/part_000                                            *)
(* One of them is deployed (variable version).  Every request is handled   *)
(* by an async handler; a handler gives up control only at an await, so    *)
(* one action models the code between two awaits.  The effect of a store   *)
(* or gateway call is applied in the action that resumes after its await.  *)
(***************************************************************************)
EXTENDS Integers, Sequences, FiniteSets, TLC

\* ---- bounds ----
MaxRefs == 2      \* initiations that get as far as generating a reference
NumAppts == 2     \* rows of the appointments table

\* ---- values ----
Null == 0                     \* null / undefined / a falsy field
Procs == {1, 2}               \* handler slots: two requests can be in flight at once
Refs == 1..MaxRefs            \* the k-th 'ps_ref_' + uuidv4()
BogusRef == MaxRefs + 1       \* a reference no initiation generated
Appts == 1..NumAppts          \* ids of the rows of appointments
ApptIds == Appts \cup {Null}
AmountValues == {Null, 5000}  \* amount_ngn: falsy, or a positive amount
StoreOutcomes == {"ok", "error", "throw"}     \* {error: null} / {error} / rejected promise
GatewayOutcomes == {"ok", "fail", "throw"}    \* json.status true / false / fetch rejected
EventTypes == {"charge.success", "charge.failed", "other"}
DataStatuses == {"success", "other"}
WebhookSecret == "whsec"      \* PAYSTACK_WEBHOOK_SECRET when configured
OtherKey == "forged"          \* any other key
NoHeader == <<>>              \* no x-paystack-signature header
NoData == [missing |-> TRUE]  \* a body without a data object
Unread == "unread"            \* req.body.event of a delivery rejected before it is read

VARIABLES
    version,           \* "v1" or "v2": the file that is deployed
    secretConfigured,  \* PAYSTACK_WEBHOOK_SECRET is set
    payments,          \* payments table: ref -> row
    appointments,      \* appointments table: id -> status
    nextRef,           \* index of the next uuidv4()
    gatewayCalls,      \* history: fetches of /transaction/initialize issued, each
                       \* with the status of its reference's row at that moment
    pc,                \* per slot: "idle", the call awaited, or "done"
    req,               \* per slot: the request and the handler's locals
    resp               \* per slot: the response

vars == <<version, secretConfigured, payments, appointments, nextRef,
          gatewayCalls, pc, req, resp>>

\* ---- pure helpers ----
Truthy(v) == v # Null

\* crypto.createHmac('sha512', key).update(JSON.stringify(body)).digest('hex'):
\* a value determined by the key and the body, different for different pairs.
Hmac(key, body) == <<key, body>>

\* the header is the HMAC-SHA512 of the body under the gateway's secret
SignatureValid(body, header) == header = Hmac(WebhookSecret, body)

\* variant: without a configured secret every delivery is refused
verifyPaystackSignature_FailClosed(configured, body, header) ==
    configured /\ Hmac(WebhookSecret, body) = header

verifyPaystackSignature(configured, body, header) ==
    IF ~configured THEN TRUE
    ELSE Hmac(WebhookSecret, body) = header

\* variant: the request is refused only when both fields are missing
InitRejected_BothMissing(appointment_id, amount_ngn) ==
    ~Truthy(appointment_id) /\ ~Truthy(amount_ngn)

\* the check at the head of POST /paystack/init
InitRejected(appointment_id, amount_ngn) ==
    ~Truthy(appointment_id) \/ ~Truthy(amount_ngn)

\* supabase.from('payments').insert([{...status: 'initiated', ref}])
InsertPayment(pays, appointment_id, amount_ngn, provider, ref) ==
    [r \in DOMAIN pays \cup {ref} |->
        IF r = ref
        THEN [appointment_id |-> appointment_id, amount_ngn |-> amount_ngn,
              provider |-> provider, status |-> "initiated"]
        ELSE pays[r]]

\* variant: the update writes the whole row from the event, which carries no
\* amount
UpdatePaymentRows_WholeRow(pays, reference, status) ==
    [r \in DOMAIN pays |->
        IF r = reference
        THEN [pays[r] EXCEPT !.status = status, !.amount_ngn = Null]
        ELSE pays[r]]

\* variant: the update has lost its filter and writes every row
UpdatePaymentRows_AllRows(pays, reference, status) ==
    [r \in DOMAIN pays |-> [pays[r] EXCEPT !.status = status]]

\* variant: an update that matches no row inserts one (an upsert)
UpdatePaymentRows_Upsert(pays, reference, status) ==
    [r \in DOMAIN pays \cup {reference} |->
        IF r # reference THEN pays[r]
        ELSE IF r \in DOMAIN pays THEN [pays[r] EXCEPT !.status = status]
        ELSE [appointment_id |-> Null, amount_ngn |-> Null,
              provider |-> "paystack", status |-> status]]

\* variant: a row that already has the requested status is marked failed
UpdatePaymentRows_FlagsRepeat(pays, reference, status) ==
    [r \in DOMAIN pays |->
        IF r = reference
        THEN [pays[r] EXCEPT !.status =
                 IF pays[r].status = status THEN "failed" ELSE status]
        ELSE pays[r]]

\* supabase.from('payments').update({ status }).eq('ref', reference)
UpdatePaymentRows(pays, reference, status) ==
    [r \in DOMAIN pays |->
        IF r = reference THEN [pays[r] EXCEPT !.status = status] ELSE pays[r]]

\* variant: the filter of the appointments update matches no row
UpdateAppointmentRows_NoMatch(appts, id) == appts

\* supabase.from('appointments').update({ status: 'confirmed' }).eq('id', id)
UpdateAppointmentRows(appts, id) ==
    [a \in DOMAIN appts |-> IF a = id THEN "confirmed" ELSE appts[a]]

RowStatus(pays, ref) == IF ref \in DOMAIN pays THEN pays[ref].status ELSE "absent"

\* references the gateway has been told; a reference is a fresh uuid, so a
\* delivery carries one of these or one that no initiation generated
Disclosed == {c.ref : c \in gatewayCalls}

\* bodies a webhook delivery can carry
WebhookData ==
    {NoData} \cup
    [status : DataStatuses, reference : Disclosed \cup {BogusRef},
     appointment_id : ApptIds]
WebhookBodies == [event : EventTypes, data : WebhookData]
WebhookHeaders(body) == {NoHeader, Hmac(WebhookSecret, body), Hmac(OtherKey, body)}

\* req[p]: the locals of the handler in slot p (only those it has assigned),
\* with what the request was (kind, event, sigValid) kept for the properties
Idle == [kind |-> "none"]
InitReq(appointment_id, amount_ngn, ref) ==
    [kind |-> "init", appointment_id |-> appointment_id,
     amount_ngn |-> amount_ngn, ref |-> ref]
WebhookReq(event, sigValid, reference, appointment_id) ==
    [kind |-> "webhook", event |-> event, sigValid |-> sigValid,
     reference |-> reference, appointment_id |-> appointment_id]

\* resp[p]: the HTTP response, the last call the handler awaited before it
\* and that call's outcome
NoResp == [code |-> 0, error |-> "none", after |-> "none", o |-> "none"]

Respond(p, code, error, after, o) ==
    /\ resp' = [resp EXCEPT ![p] =
           [code |-> code, error |-> error, after |-> after, o |-> o]]
    /\ pc' = [pc EXCEPT ![p] = "done"]

\* A response is being sent.  Sending a response touches no shared state, so
\* it is ordered before the next handler step: no interleaving of store
\* operations is lost.
Responding == \E p \in Procs : pc[p] = "done"

\* ---- initial state ----
Init ==
    /\ version \in {"v1", "v2"}
    /\ secretConfigured \in BOOLEAN
    /\ (version = "v1" => secretConfigured = FALSE)
    /\ payments = [r \in {} |-> Null]
    /\ appointments = [a \in Appts |-> "pending"]
    /\ nextRef = 1
    /\ gatewayCalls = {}
    /\ pc = [p \in Procs |-> "idle"]
    /\ req = [p \in Procs |-> Idle]
    /\ resp = [p \in Procs |-> NoResp]

\* The code of a handler before its first await reads and writes no shared
\* state, so it is run together with the completion of that first call: an
\* action is one store or gateway call completing, with the code around it.

\* ================= v2: deepseek_javascript_20250903_d1d6a6.js =============

\* POST /paystack/init: validation, ref, createPaymentRecord; when the insert
\* has succeeded the fetch of /transaction/initialize is issued
PaystackInitV2(p) ==
    /\ ~Responding /\ version = "v2" /\ pc[p] = "idle"
    /\ \E appointment_id \in ApptIds, amount_ngn \in AmountValues :
        IF InitRejected(appointment_id, amount_ngn)
        THEN /\ req' = [req EXCEPT ![p] = InitReq(appointment_id, amount_ngn, Null)]
             /\ Respond(p, 400, "PaymentError", "none", "none")
             /\ UNCHANGED <<nextRef, payments, gatewayCalls>>
        ELSE /\ nextRef <= MaxRefs
             /\ req' = [req EXCEPT ![p] = InitReq(appointment_id, amount_ngn, nextRef)]
             /\ nextRef' = nextRef + 1
             /\ \E o \in StoreOutcomes :
                 IF o = "ok"
                 THEN /\ payments' = InsertPayment(payments, appointment_id,
                                         amount_ngn, "paystack", nextRef)
                      /\ gatewayCalls' = gatewayCalls \cup
                             {[ref |-> nextRef, row |-> RowStatus(payments', nextRef)]}
                      /\ pc' = [pc EXCEPT ![p] = "gateway"]
                      /\ UNCHANGED resp
                 ELSE /\ Respond(p, 500, "DatabaseError", "insert", o)
                      /\ UNCHANGED <<payments, gatewayCalls>>
    /\ UNCHANGED <<version, secretConfigured, appointments>>

\* fetch(...) and initResp.json() resume; on status false
\* updatePaymentStatus(ref, 'failed') is awaited, then PaymentError is thrown
GatewayV2(p) ==
    /\ ~Responding /\ version = "v2" /\ pc[p] = "gateway"
    /\ \E g \in GatewayOutcomes :
        CASE g = "ok" ->
               /\ Respond(p, 200, "none", "gateway", g)
               /\ UNCHANGED payments
          [] g = "throw" ->
               /\ Respond(p, 500, "Error", "gateway", g)
               /\ UNCHANGED payments
          [] g = "fail" ->
               \E o \in StoreOutcomes :
                   IF o = "ok"
                   THEN /\ payments' = UpdatePaymentRows(payments, req[p].ref, "failed")
                        /\ Respond(p, 400, "PaymentError", "payments.update", o)
                   ELSE /\ Respond(p, 500, "DatabaseError", "payments.update", o)
                        /\ UNCHANGED payments
    /\ UNCHANGED <<version, secretConfigured, appointments, nextRef,
                   gatewayCalls, req>>

\* target status of an event type in POST /paystack/webhook
TargetStatusV2(event) ==
    CASE event = "charge.success" -> "paid"
      [] event = "charge.failed" -> "failed"
      [] OTHER -> "none"

\* POST /paystack/webhook: verification, dispatch on the event type and the
\* payments update of updatePaymentStatus
WebhookV2(p) ==
    /\ ~Responding /\ version = "v2" /\ pc[p] = "idle"
    /\ \E body \in WebhookBodies : \E header \in WebhookHeaders(body) :
        LET sigValid == SignatureValid(body, header)
            status == TargetStatusV2(body.event)
        IN
        IF ~verifyPaystackSignature(secretConfigured, body, header)
        THEN /\ req' = [req EXCEPT ![p] = WebhookReq(Unread, sigValid, Null, Null)]
             /\ Respond(p, 401, "Invalid signature", "none", "none")
             /\ UNCHANGED payments
        ELSE IF status = "none"
        THEN /\ req' = [req EXCEPT ![p] = WebhookReq(body.event, sigValid, Null, Null)]
             /\ Respond(p, 200, "none", "none", "none")
             /\ UNCHANGED payments
        ELSE IF body.data = NoData
        THEN /\ req' = [req EXCEPT ![p] = WebhookReq(body.event, sigValid, Null, Null)]
             /\ Respond(p, 500, "Webhook processing failed", "none", "TypeError")
             /\ UNCHANGED payments
        ELSE LET reference == body.data.reference
                 appointment_id == IF status = "paid"
                                   THEN body.data.appointment_id ELSE Null
             IN
             /\ req' = [req EXCEPT ![p] =
                    WebhookReq(body.event, sigValid, reference, appointment_id)]
             /\ \E o \in StoreOutcomes :
                 IF o = "ok"
                 THEN /\ payments' = UpdatePaymentRows(payments, reference, status)
                      /\ IF status = "paid" /\ Truthy(appointment_id)
                         THEN /\ pc' = [pc EXCEPT ![p] = "upd_appointment"]
                              /\ UNCHANGED resp
                         ELSE Respond(p, 200, "none", "payments.update", o)
                 ELSE /\ Respond(p, 500, "Webhook processing failed",
                             "payments.update", o)
                      /\ UNCHANGED payments
    /\ UNCHANGED <<version, secretConfigured, appointments, nextRef, gatewayCalls>>

\* updatePaymentStatus: the appointments update resumes
UpdateAppointmentV2(p) ==
    /\ ~Responding /\ version = "v2" /\ pc[p] = "upd_appointment"
    /\ \E o \in StoreOutcomes :
        CASE o = "ok" ->
               /\ appointments' = UpdateAppointmentRows(appointments,
                                      req[p].appointment_id)
               /\ Respond(p, 200, "none", "appointments.update", o)
          [] o = "error" ->
               /\ Respond(p, 200, "none", "appointments.update", o)
               /\ UNCHANGED appointments
          [] o = "throw" ->
               /\ Respond(p, 500, "Webhook processing failed",
                      "appointments.update", o)
               /\ UNCHANGED appointments
    /\ UNCHANGED <<version, secretConfigured, payments, nextRef,
                   gatewayCalls, req>>

\* ================= v1: unnamed/part_000 ===================================

\* POST /paystack/init: validation, ref, createPaymentRecord (an insert error
\* is logged); then the fetch of /transaction/initialize is issued
PaystackInitV1(p) ==
    /\ ~Responding /\ version = "v1" /\ pc[p] = "idle"
    /\ \E appointment_id \in ApptIds, amount_ngn \in AmountValues :
        IF InitRejected(appointment_id, amount_ngn)
        THEN /\ req' = [req EXCEPT ![p] = InitReq(appointment_id, amount_ngn, Null)]
             /\ Respond(p, 400, "appointment_id and amount_ngn required",
                    "none", "none")
             /\ UNCHANGED <<nextRef, payments, gatewayCalls>>
        ELSE /\ nextRef <= MaxRefs
             /\ req' = [req EXCEPT ![p] = InitReq(appointment_id, amount_ngn, nextRef)]
             /\ nextRef' = nextRef + 1
             /\ \E o \in StoreOutcomes :
                 /\ payments' = IF o = "ok"
                                THEN InsertPayment(payments, appointment_id,
                                         amount_ngn, "paystack", nextRef)
                                ELSE payments
                 /\ gatewayCalls' = gatewayCalls \cup
                        {[ref |-> nextRef, row |-> RowStatus(payments', nextRef)]}
                 /\ pc' = [pc EXCEPT ![p] = "gateway"]
                 /\ UNCHANGED resp
    /\ UNCHANGED <<version, secretConfigured, appointments>>

\* fetch(...) and initResp.json() resume
GatewayV1(p) ==
    /\ ~Responding /\ version = "v1" /\ pc[p] = "gateway"
    /\ \E g \in GatewayOutcomes :
        CASE g = "ok" -> Respond(p, 200, "none", "gateway", g)
          [] g = "fail" -> Respond(p, 500, "Paystack init failed", "gateway", g)
          [] g = "throw" -> Respond(p, 500, "server error", "gateway", g)
    /\ UNCHANGED <<version, secretConfigured, payments, appointments, nextRef,
                   gatewayCalls, req>>

\* the condition of POST /paystack/webhook
ProcessedV1(body) ==
    \/ body.event = "charge.success"
    \/ (body.data # NoData /\ body.data.status = "success")

\* POST /paystack/webhook: the condition and the payments update
WebhookV1(p) ==
    /\ ~Responding /\ version = "v1" /\ pc[p] = "idle"
    /\ \E body \in WebhookBodies : \E header \in WebhookHeaders(body) :
        LET sigValid == SignatureValid(body, header)
            reference == IF body.data = NoData THEN Null ELSE body.data.reference
            appointment_id ==
                IF body.data = NoData THEN Null ELSE body.data.appointment_id
        IN
        IF ~ProcessedV1(body)
        THEN /\ req' = [req EXCEPT ![p] = WebhookReq(body.event, sigValid, Null, Null)]
             /\ Respond(p, 200, "none", "none", "none")
             /\ UNCHANGED payments
        ELSE \E o \in StoreOutcomes :
             IF o = "throw"
             THEN /\ req' = [req EXCEPT ![p] =
                         WebhookReq(body.event, sigValid, reference, Null)]
                  /\ Respond(p, 200, "none", "payments.update", o)
                  /\ UNCHANGED payments
             ELSE /\ req' = [req EXCEPT ![p] =
                         WebhookReq(body.event, sigValid, reference, appointment_id)]
                  /\ payments' = IF o = "ok"
                                 THEN UpdatePaymentRows(payments, reference, "paid")
                                 ELSE payments
                  /\ IF Truthy(appointment_id)
                     THEN /\ pc' = [pc EXCEPT ![p] = "upd_appointment"]
                          /\ UNCHANGED resp
                     ELSE Respond(p, 200, "none", "payments.update", o)
    /\ UNCHANGED <<version, secretConfigured, appointments, nextRef, gatewayCalls>>

\* the appointments update resumes
UpdateAppointmentV1(p) ==
    /\ ~Responding /\ version = "v1" /\ pc[p] = "upd_appointment"
    /\ \E o \in StoreOutcomes :
        /\ appointments' = IF o = "ok"
                           THEN UpdateAppointmentRows(appointments,
                                    req[p].appointment_id)
                           ELSE appointments
        /\ Respond(p, 200, "none", "appointments.update", o)
    /\ UNCHANGED <<version, secretConfigured, payments, nextRef,
                   gatewayCalls, req>>

\* ================= both ===================================================

\* the response has been sent; the slot takes the next request
Reset(p) ==
    /\ pc[p] = "done"
    /\ pc' = [pc EXCEPT ![p] = "idle"]
    /\ req' = [req EXCEPT ![p] = Idle]
    /\ resp' = [resp EXCEPT ![p] = NoResp]
    /\ UNCHANGED <<version, secretConfigured, payments, appointments, nextRef,
                   gatewayCalls>>

Next ==
    \E p \in Procs :
        \/ PaystackInitV2(p)
        \/ GatewayV2(p)
        \/ WebhookV2(p)
        \/ UpdateAppointmentV2(p)
        \/ PaystackInitV1(p)
        \/ GatewayV1(p)
        \/ WebhookV1(p)
        \/ UpdateAppointmentV1(p)
        \/ Reset(p)

Spec == Init /\ [][Next]_vars

\* requests arrive one at a time: one handler slot is in use
SerialNext ==
    \/ PaystackInitV2(1)
    \/ GatewayV2(1)
    \/ WebhookV2(1)
    \/ UpdateAppointmentV2(1)
    \/ PaystackInitV1(1)
    \/ GatewayV1(1)
    \/ WebhookV1(1)
    \/ UpdateAppointmentV1(1)
    \/ Reset(1)

SerialSpec == Init /\ [][SerialNext]_vars

\* ---- calls that are never answered ----

\* The gateway or the store never answers the call the handler in slot p
\* awaits: the promise is never settled.  Neither file passes a timeout or
\* an abort signal to fetch or to the store client and no timer races the
\* await, so the handler has no further step and sends no response.
CallNeverAnswers(p) ==
    /\ ~Responding
    /\ pc[p] \in {"gateway", "upd_appointment"}
    /\ pc' = [pc EXCEPT ![p] = "unanswered"]
    /\ UNCHANGED <<version, secretConfigured, payments, appointments, nextRef,
                   gatewayCalls, req, resp>>

\* the handler in slot p resumes after the call it awaited has been answered,
\* or its response goes out
Resume(p) ==
    \/ GatewayV2(p)
    \/ UpdateAppointmentV2(p)
    \/ GatewayV1(p)
    \/ UpdateAppointmentV1(p)
    \/ Reset(p)

UnansweredNext == SerialNext \/ CallNeverAnswers(1)

\* The event loop runs the continuation of an await once the awaited promise
\* has settled: a handler that can resume does resume.
FairSpec == Init /\ [][UnansweredNext]_vars /\ WF_vars(Resume(1))

\* ---- two webhook deliveries against a known store ----

\* the store after MaxRefs initiations that the gateway accepted
PaidFor(r) == ((r - 1) % NumAppts) + 1
InitiatedPayments ==
    [r \in Refs |-> [appointment_id |-> PaidFor(r), amount_ngn |-> 5000,
                     provider |-> "paystack", status |-> "initiated"]]
PendingAppointments == [a \in Appts |-> "pending"]

PairInit ==
    /\ version \in {"v1", "v2"}
    /\ secretConfigured \in BOOLEAN
    /\ (version = "v1" => secretConfigured = FALSE)
    /\ payments = InitiatedPayments
    /\ appointments = PendingAppointments
    /\ nextRef = MaxRefs + 1
    /\ gatewayCalls = {[ref |-> r, row |-> "initiated"] : r \in Refs}
    /\ pc = [p \in Procs |-> "idle"]
    /\ req = [p \in Procs |-> Idle]
    /\ resp = [p \in Procs |-> NoResp]

\* the response has been sent; the slot takes no further request, and what
\* it handled stays on record
Retire(p) ==
    /\ pc[p] = "done"
    /\ pc' = [pc EXCEPT ![p] = "retired"]
    /\ UNCHANGED <<version, secretConfigured, payments, appointments, nextRef,
                   gatewayCalls, req, resp>>

\* each slot handles one webhook delivery
PairNext ==
    \E p \in Procs :
        \/ WebhookV2(p)
        \/ UpdateAppointmentV2(p)
        \/ WebhookV1(p)
        \/ UpdateAppointmentV1(p)
        \/ Retire(p)

PairSpec == PairInit /\ [][PairNext]_vars

\* ================= properties =============================================

Terminal == {"paid", "failed"}

\* the gateway answered an initiation with status false
GatewayFailed(p) ==
    /\ req[p].kind = "init"
    /\ \/ resp[p].after = "payments.update"
       \/ (resp[p].after = "gateway" /\ resp[p].o = "fail")

\* C1: a Payment whose status is paid or failed never changes status again
\* (the only transitions are initiated -> paid and initiated -> failed).
C1_TerminalStatusIsFinal ==
    [][\A r \in DOMAIN payments :
          payments[r].status \in Terminal =>
              payments'[r].status = payments[r].status]_vars

\* C2: whenever POST /transaction/initialize is issued for a reference, a
\* Payment row with that reference exists with status initiated.
C2_RowExistsBeforeGatewayCall ==
    \A c \in gatewayCalls : c.row = "initiated"

\* C3: a webhook delivery whose signature header is missing or is not the
\* HMAC of the body changes no Payment or Appointment row and is answered
\* 401, whether or not a webhook secret is configured.
C3_InvalidSignatureRejected ==
    [][\A p \in Procs :
          (req'[p].kind = "webhook" /\ ~req'[p].sigValid /\ pc'[p] # pc[p]) =>
              /\ payments' = payments
              /\ appointments' = appointments
              /\ pc'[p] = "done"
              /\ resp'[p].code = 401]_vars

\* C4: a webhook delivery that passed verification and reached the store
\* updates is answered 200, whether or not those updates succeed.
C4_VerifiedWebhookAcknowledged ==
    \A p \in Procs :
        (/\ pc[p] = "done"
         /\ req[p].kind = "webhook"
         /\ resp[p].after \in {"payments.update", "appointments.update"})
            => resp[p].code = 200

\* C5: a charge.success delivery that arrives when the same event has been
\* applied already (the Payment is paid, the Appointment is confirmed)
\* changes neither row, and is answered 200 when its updates succeed.
C5_RedeliveredSuccessIsNoOp ==
    [][\A p \in Procs :
          (/\ req'[p].kind = "webhook"
           /\ req'[p].event = "charge.success"
           /\ pc'[p] # pc[p]) =>
              /\ (/\ pc[p] = "idle"
                  /\ RowStatus(payments, req'[p].reference) = "paid") =>
                     /\ payments' = payments
                     /\ appointments' = appointments
                     /\ (pc'[p] = "done" /\ resp'[p].o = "ok" => resp'[p].code = 200)
              /\ (/\ pc[p] = "upd_appointment"
                  /\ appointments[req[p].appointment_id] = "confirmed") =>
                     /\ payments' = payments
                     /\ appointments' = appointments
                     /\ (resp'[p].o = "ok" => resp'[p].code = 200)]_vars

\* C5 witness: the same charge.success event was delivered twice at once; one
\* delivery has completed with 200, the other has applied its payments
\* update too, and the Payment is paid and the Appointment confirmed.
C5_Witness ==
    \E p, q \in Procs :
        /\ p # q
        /\ req[p].kind = "webhook" /\ req[p].event = "charge.success"
        /\ req[q] = req[p]
        /\ pc[p] = "done" /\ resp[p].after = "appointments.update"
        /\ resp[p].o = "ok" /\ resp[p].code = 200
        /\ pc[q] = "upd_appointment"
        /\ RowStatus(payments, req[p].reference) = "paid"
        /\ appointments[req[p].appointment_id] = "confirmed"

\* C6: when the gateway reports failure for an initiation, the Payment of
\* that reference becomes failed and the caller receives a PaymentError
\* (4xx), also when the store update to failed itself fails.
C6_GatewayFailureGivesPaymentError ==
    [][\A p \in Procs :
          (pc'[p] = "done" /\ pc[p] # "done" /\ GatewayFailed(p)') =>
              /\ resp'[p].code = 400
              /\ resp'[p].error = "PaymentError"
              /\ (resp'[p].o \notin {"error", "throw"} =>
                     RowStatus(payments', req[p].ref) = "failed")]_vars

\* C7: an initiation whose appointment_id or amount_ngn is missing or falsy
\* is answered 400 at once: no reference is generated, no row is inserted,
\* the gateway is not called and the store is unchanged.
C7_InvalidInitiationHasNoEffect ==
    [][\A p \in Procs :
          (/\ pc[p] = "idle"
           /\ req'[p].kind = "init"
           /\ (req'[p].appointment_id = Null \/ req'[p].amount_ngn = Null)) =>
              /\ pc'[p] = "done"
              /\ resp'[p].code = 400
              /\ req'[p].ref = Null
              /\ UNCHANGED <<payments, appointments, nextRef, gatewayCalls>>]_vars

\* C7 witness: an initiation without an amount has been answered 400
C7_Witness ==
    \E p \in Procs :
        /\ pc[p] = "done" /\ req[p].kind = "init"
        /\ req[p].appointment_id # Null /\ req[p].amount_ngn = Null
        /\ resp[p].code = 400

\* C8: when the Appointment update of a charge.success delivery fails
\* (returns an error or throws), the Payment is left as it is and the
\* delivery is still answered 200.
C8_AppointmentFailureNotSurfaced ==
    [][\A p \in Procs :
          (/\ req[p].kind = "webhook"
           /\ req[p].event = "charge.success"
           /\ pc[p] = "upd_appointment"
           /\ RowStatus(payments, req[p].reference) = "paid"
           /\ pc'[p] = "done"
           /\ resp'[p].o \in {"error", "throw"}) =>
              /\ payments' = payments
              /\ resp'[p].code = 200]_vars

\* C9: whenever a webhook delivery sets Appointment A to confirmed, the
\* event carried appointment_id A and a Payment row with the event's
\* reference exists with status paid.
C9_ConfirmedOnlyWithPaidPayment ==
    [][\A a \in Appts :
          (appointments[a] # "confirmed" /\ appointments'[a] = "confirmed") =>
              \E p \in Procs :
                  /\ req[p].kind = "webhook"
                  /\ pc[p] = "upd_appointment" /\ pc'[p] # pc[p]
                  /\ req[p].appointment_id = a
                  /\ RowStatus(payments, req[p].reference) = "paid"]_vars

\* C10: a webhook whose event type is neither charge.success nor
\* charge.failed changes no Payment or Appointment row and is answered 200.
C10_OtherEventIsNoOp ==
    [][\A p \in Procs :
          (req'[p].kind = "webhook" /\ req'[p].event = "other" /\ pc'[p] # pc[p]) =>
              /\ payments' = payments
              /\ appointments' = appointments
              /\ (pc'[p] = "done" => resp'[p].code = 200)]_vars

\* a webhook handler takes its first step in slot p
WebhookStep(p) == WebhookV2(p) \/ WebhookV1(p)

\* C11: when no webhook secret is configured no delivery is refused, and a
\* delivery whose signature header is absent or wrong is handled exactly as
\* the same delivery correctly signed: from the same state the signed
\* delivery can produce the same store, the same handler position and the
\* same response.
C11_FailsOpenWithoutSecret ==
    [][\A p \in Procs :
          (/\ ~secretConfigured
           /\ pc[p] = "idle"
           /\ req'[p].kind = "webhook") =>
              /\ resp'[p].code # 401
              /\ req'[p].event # Unread
              /\ ~req'[p].sigValid =>
                   \A pays \in {payments'}, appts \in {appointments'},
                      pcs \in {pc'}, resps \in {resp'}, r \in {req'[p]} :
                       ENABLED (/\ WebhookStep(p)
                                /\ req'[p] = [r EXCEPT !.sigValid = TRUE]
                                /\ payments' = pays
                                /\ appointments' = appts
                                /\ pc' = pcs
                                /\ resp' = resps)]_vars

\* C11 witness: with no secret configured in the file that verifies
\* signatures, a charge.success delivery without a valid signature has set
\* the initiated Payment of its reference to paid and has been answered 200
C11_Witness ==
    \E p \in Procs :
        /\ version = "v2" /\ ~secretConfigured
        /\ req[p].kind = "webhook" /\ ~req[p].sigValid
        /\ req[p].event = "charge.success"
        /\ pc[p] = "done" /\ resp[p].code = 200
        /\ RowStatus(payments, req[p].reference) = "paid"

\* the request r is a correctly signed charge event whose reference no Payment
\* row has
UnknownReference(r) ==
    /\ r.kind = "webhook"
    /\ r.sigValid
    /\ r.event \in {"charge.success", "charge.failed"}
    /\ r.reference # Null
    /\ r.reference \notin DOMAIN payments

\* C12: a correctly signed charge.success or charge.failed delivery whose
\* reference matches no Payment row creates no Payment row and changes none,
\* at either of its steps, and is answered 200 when its store calls succeed.
C12_UnknownReferenceIsAcknowledged ==
    [][\A p \in Procs :
          (/\ pc'[p] # pc[p]
           /\ \/ pc[p] = "idle" /\ UnknownReference(req'[p])
              \/ pc[p] = "upd_appointment" /\ UnknownReference(req[p])) =>
              /\ payments' = payments
              /\ (pc'[p] = "done" /\ resp'[p].o = "ok") => resp'[p].code = 200]_vars

\* C12 witness: while a Payment row exists, a signed charge.failed delivery
\* for a reference without a row has been answered 200
C12_Witness ==
    \E p \in Procs :
        /\ pc[p] = "done"
        /\ UnknownReference(req[p])
        /\ req[p].event = "charge.failed"
        /\ version = "v2" /\ secretConfigured
        /\ resp[p].after = "payments.update" /\ resp[p].code = 200
        /\ DOMAIN payments # {}

\* the request r is a correctly signed charge.success for an existing Payment
\* row that carries an appointment_id
SignedSuccess(r) ==
    /\ r.kind = "webhook"
    /\ r.sigValid
    /\ r.event = "charge.success"
    /\ r.reference \in DOMAIN payments
    /\ Truthy(r.appointment_id)

\* C13: a correctly signed charge.success delivery with reference r and
\* appointment_id A, met by an initiated Payment r: the only change its
\* payments update can make is r to paid, and where the handler goes on only
\* after that update has succeeded (the later file) r is paid when it goes
\* on; its appointments update, when it succeeds, sets A to confirmed, leaves
\* the Payment as it is and the delivery is answered 200.
C13_SuccessSetsPaidAndConfirmed ==
    [][\A p \in Procs :
          (pc'[p] # pc[p] /\ SignedSuccess(req'[p])) =>
              /\ (/\ pc[p] = "idle"
                  /\ payments[req'[p].reference].status = "initiated") =>
                     /\ appointments' = appointments
                     /\ payments' # payments =>
                          payments' = [payments EXCEPT
                                          ![req'[p].reference].status = "paid"]
                     /\ (version = "v2" /\ pc'[p] = "upd_appointment") =>
                          payments'[req'[p].reference].status = "paid"
              /\ (pc[p] = "upd_appointment" /\ resp'[p].o = "ok") =>
                     /\ payments' = payments
                     /\ appointments' = [appointments EXCEPT
                                            ![req[p].appointment_id] = "confirmed"]
                     /\ resp'[p].code = 200]_vars

\* C13 witness: such a delivery has completed with both updates applied: the
\* Payment is paid, the Appointment is confirmed, the answer is 200
C13_Witness ==
    \E p \in Procs :
        /\ pc[p] = "done"
        /\ SignedSuccess(req[p])
        /\ resp[p].after = "appointments.update" /\ resp[p].o = "ok"
        /\ resp[p].code = 200
        /\ payments[req[p].reference].status = "paid"
        /\ appointments[req[p].appointment_id] = "confirmed"

\* ---- what one completed delivery does to a store, read from its request
\* ---- (rq) and its response (rs)

\* the status the payments update of the delivery writes
WrittenStatus(rq) == IF version = "v2" THEN TargetStatusV2(rq.event) ELSE "paid"

\* whether the payments update was applied: the response tells, except that
\* part_000 reaches the appointments update after a payments update that
\* returned an error as well
PaymentsApplied(rs) ==
    CASE rs.after = "none" -> {FALSE}
      [] rs.after = "payments.update" -> {rs.o = "ok"}
      [] rs.after = "appointments.update" ->
             IF version = "v2" THEN {TRUE} ELSE {TRUE, FALSE}

AppointmentsApplied(rs) == rs.after = "appointments.update" /\ rs.o = "ok"

\* the stores that handling the delivery alone, from store st, can leave
Alone(st, rq, rs) ==
    {[payments |-> IF applied
                   THEN UpdatePaymentRows(st.payments, rq.reference,
                            WrittenStatus(rq))
                   ELSE st.payments,
      appointments |-> IF AppointmentsApplied(rs)
                       THEN UpdateAppointmentRows(st.appointments,
                                rq.appointment_id)
                       ELSE st.appointments] : applied \in PaymentsApplied(rs)}

\* the stores that handling delivery p and then delivery q can leave
Sequential(st, p, q) ==
    UNION {Alone(mid, req[q], resp[q]) : mid \in Alone(st, req[p], resp[p])}

Store == [payments |-> payments, appointments |-> appointments]
InitialStore == [payments |-> InitiatedPayments, appointments |-> PendingAppointments]

\* two deliveries for different references and different appointments
Independent(p, q) ==
    /\ p # q
    /\ req[p].kind = "webhook" /\ req[q].kind = "webhook"
    /\ req[p].reference # req[q].reference
    /\ req[p].appointment_id # req[q].appointment_id

\* every delivery handled has been answered and no handler is running
BothHandled == \A p \in Procs : pc[p] = "retired"

\* a step of the delivery in slot p leaves the Payment rows of all other
\* references as they are
OtherRowsUntouched(p) ==
    \A r \in DOMAIN payments :
        r # req'[p].reference =>
            r \in DOMAIN payments' /\ payments'[r] = payments[r]

\* C14: (a) no step of a delivery changes the Payment row of a reference
\* other than its own; (b) when two deliveries for different references and
\* different appointments have been handled concurrently, in whatever
\* interleaving of their store calls, the store is one that handling them one
\* after the other leaves, in the one order and in the other; a delivery
\* handled while no other has started leaves what handling it alone leaves.
C14_DifferentReferencesIndependent ==
    /\ [][\A p \in Procs :
            (pc'[p] # pc[p] /\ req'[p].kind = "webhook") =>
                OtherRowsUntouched(p)]_vars
    /\ [](\A p, q \in Procs :
            /\ (p # q /\ pc[p] = "retired" /\ pc[q] = "idle") =>
                   Store \in Alone(InitialStore, req[p], resp[p])
            /\ (BothHandled /\ Independent(p, q)) =>
                   /\ Store \in Sequential(InitialStore, p, q)
                   /\ Store \in Sequential(InitialStore, q, p))

\* C14 witness: a charge.success for one reference and appointment and a
\* charge.failed for the other reference have both been handled with their
\* updates applied, and each row has the status of its own event
C14_Witness ==
    \E p, q \in Procs :
        /\ BothHandled /\ Independent(p, q)
        /\ req[p].event = "charge.success" /\ req[q].event = "charge.failed"
        /\ req[p].reference \in DOMAIN payments
        /\ req[q].reference \in DOMAIN payments
        /\ resp[p].after = "appointments.update" /\ resp[p].o = "ok"
        /\ resp[q].after = "payments.update" /\ resp[q].o = "ok"
        /\ payments[req[p].reference].status = "paid"
        /\ payments[req[q].reference].status = "failed"
        /\ appointments[req[p].appointment_id] = "confirmed"

\* the references that get a Payment row in this step
Created == DOMAIN payments' \ DOMAIN payments

\* slot p takes the first step of an initiation that is not refused
InitiationAccepted(p) ==
    pc[p] = "idle" /\ req'[p].kind = "init" /\ pc'[p] = "gateway"

\* C15: no step removes a Payment row; a step creates at most one, with
\* status initiated and under a reference no row had, and only as the first
\* step of an initiation; every initiation that is accepted (the handler
\* goes on to call the gateway) has created the row of its reference.
C15_RowsCreatedOnlyAndAlwaysByInitiation ==
    [][/\ DOMAIN payments \subseteq DOMAIN payments'
       /\ Cardinality(Created) <= 1
       /\ \A r \in Created :
              /\ payments'[r].status = "initiated"
              /\ \E p \in Procs :
                     pc[p] = "idle" /\ req'[p].kind = "init" /\ req'[p].ref = r
       /\ \A p \in Procs :
              InitiationAccepted(p) => req'[p].ref \in Created]_vars

\* C16: when the appointments update of a charge.success delivery has been
\* applied, the Payment row of the delivery's reference, if there is one, is
\* no longer initiated: the payments update took effect first.
C16_PaymentUpdatedBeforeAppointment ==
    [][\A p \in Procs :
          (/\ pc[p] = "upd_appointment" /\ pc'[p] = "done"
           /\ req[p].event = "charge.success"
           /\ resp'[p].o = "ok"
           /\ req[p].reference \in DOMAIN payments) =>
              payments'[req[p].reference].status # "initiated"]_vars

\* the fields of a Payment row other than its status
NonStatusFields(row) ==
    [appointment_id |-> row.appointment_id, amount_ngn |-> row.amount_ngn,
     provider |-> row.provider]

\* C17: no step changes the appointment_id, the amount or the provider of a
\* Payment row, or the reference it is stored under: the status updates of
\* the initiation-failure handling and of the webhook change the status only.
C17_StatusUpdateChangesStatusOnly ==
    [][\A r \in DOMAIN payments :
          /\ r \in DOMAIN payments'
          /\ NonStatusFields(payments'[r]) = NonStatusFields(payments[r])]_vars

\* C17 witness: a webhook delivery has set a Payment row to paid and is about
\* to update the appointment, the initiator of the row has then marked it
\* failed after a gateway failure, and the row still has the appointment_id,
\* the amount and the provider of the initiation request
C17_Witness ==
    \E p, q \in Procs :
        /\ version = "v2"
        /\ pc[p] = "done" /\ req[p].kind = "init"
        /\ resp[p].after = "payments.update" /\ resp[p].o = "ok"
        /\ pc[q] = "upd_appointment"
        /\ req[q].reference = req[p].ref
        /\ payments[req[p].ref] =
               [appointment_id |-> req[p].appointment_id,
                amount_ngn |-> req[p].amount_ngn,
                provider |-> "paystack", status |-> "failed"]

\* C18: every request that is waiting for the gateway or the store is
\* answered in the end, also when the call it waits for is never answered.
C18_EveryRequestAnswered ==
    \A p \in Procs :
        (pc[p] \in {"gateway", "upd_appointment", "unanswered"}) ~> (pc[p] = "done")

\* C19: a step that changes an Appointment row is the appointments update of
\* a webhook delivery whose event type is charge.success: no charge.failed
\* delivery and no step of an initiation changes one.
C19_OnlySuccessChangesAppointment ==
    [][appointments' # appointments =>
          \E p \in Procs :
              /\ pc[p] = "upd_appointment" /\ pc'[p] # pc[p]
              /\ req[p].kind = "webhook"
              /\ req[p].event = "charge.success"]_vars

====
